---- MODULE Spec2Model ----
(***************************************************************************)
(* BrowserMonitor (browser/monitor.ts) and ComposerIntegration             *)
(* (composer/integration.ts) as state machines.                            *)
(*                                                                         *)
(* Execution model: one JavaScript thread.  Every in-flight async call is  *)
(* a task with a program counter that names the await it is suspended at.  *)
(* A step runs one task from the completion of that await to its next      *)
(* await.  A task whose awaited promise is already resolved has rdy set    *)
(* (it is in the microtask queue); while some task has rdy set no I/O      *)
(* completion, timer, event or command (macrotask) runs.  A delay() that   *)
(* follows a step is part of that step.                                    *)
(***************************************************************************)
EXTENDS Integers, Sequences, FiniteSets, Bags, TLC

\* ---------------------------------------------------------------- bounds
MaxTasks == 2
MaxClients == 2
MaxBrowsers == 2
MaxLogs == 2
MaxFiles == 3

Clients == 1..MaxClients
Browsers == 1..MaxBrowsers
FileIds == 1..MaxFiles

VARIABLES
  browser,              \* this.browser: 0 is null, else the connection held
  browserState,         \* transport: each connection "none" | "open" | "closed"
  activePage,           \* this.activePage: 0 is null, else the session's client
  isConnected,          \* this._isConnected
  healthCheckInterval,  \* this.healthCheckInterval: 0 is null, else the timer handle
  timers,               \* intervals running in the event loop, by the client they probe
  clientState,          \* transport: each CDP session "none" | "attached" | "detached"
  clientConn,           \* the browser connection each CDP session runs on
  listeners,            \* clients with the four client.on(...) handlers registered
  closeListeners,       \* page.on("close") handlers on each session's page still to be called
  tasks,                \* the in-flight async calls (a bag of task records)
  fired,                \* disconnectEmitter.fire() calls of each session's health and close handlers
  lastSession,          \* the session installed most recently (0: none yet)
  overlap,              \* sessions whose page closed while their failed health check was disconnecting
  stateFires,           \* connectionStateEmitter.fire() calls made by each session's initialization
  arrays,               \* the heap: the contents of each array object
  consoleLogs,          \* this.consoleLogs: a reference to an array
  networkLogs,          \* this.networkLogs: a reference to an array
  snapshot,             \* the LogData the latest getLogs() returned (NoSnapshot: none yet)
  arrived,              \* the console events handled since the last clearLogs()
  arrivedNetwork,       \* the network events handled since the last clearLogs()
  newLog,               \* the newLogEmitter.fire(log) calls since the last clearLogs()
  cleared,              \* records the latest clearLogs() discarded, until the next event
  composerOpened,       \* ComposerIntegration.composerOpened
  send,                 \* the sendToComposer call: its locals, its position and what it has done
  clipboard,            \* the system clipboard: "empty" | "image" | "text" | "other"
  files,                \* each temp file name: "absent" | "written" | "removed"
  unlinking,            \* temp files with an fs.unlink in progress
  tmpDir                \* the staging directory exists on disk

connVars == <<browser, browserState>>
sessVars == <<activePage, isConnected>>
healthVars == <<healthCheckInterval, timers>>
clientVars == <<clientState, clientConn, listeners, closeListeners>>
noteVars == <<fired, lastSession, overlap, stateFires>>
monitorVars == <<connVars, sessVars, healthVars, clientVars, tasks, noteVars>>
logVars == <<arrays, consoleLogs, networkLogs, snapshot, arrived, arrivedNetwork, newLog, cleared>>
deliverVars == <<composerOpened, send, clipboard, files, unlinking, tmpDir>>
others == <<logVars, deliverVars>>
vars == <<monitorVars, logVars, deliverVars>>

\* ----------------------------------------------------------------- tasks
\* pc: the await the call is suspended at; kind: who made the call;
\* client: monitorPage's `client`, or the client a handler belongs to;
\* sess: the session disconnect() was called for; conn: the connection the
\* call's pages live on; rdy: the continuation is queued as a microtask;
\* held: this.browser when connect() was called
NewTask(pc, kind) == [pc |-> pc, kind |-> kind, client |-> 0, sess |-> 0, conn |-> 0,
                      held |-> 0, rdy |-> FALSE]

InFlight == BagToSet(tasks)
HasFree == BagCardinality(tasks) < MaxTasks
Replace(r, r2) == (tasks (-) SetToBag({r})) (+) SetToBag({r2})
Remove(r) == tasks (-) SetToBag({r})
Spawn(r, n) == tasks (+) [x \in {r} |-> n]

\* the microtask queue is empty: a macrotask may run
Quiet == \A r \in InFlight : ~r.rdy

FreshClient == CHOOSE c \in Clients :
                 clientState[c] = "none" /\ \A d \in Clients : clientState[d] = "none" => c <= d
FreshBrowser == CHOOSE b \in Browsers :
                  browserState[b] = "none" /\ \A d \in Browsers : browserState[d] = "none" => b <= d
ConnOpen(b) == b # 0 /\ browserState[b] = "open"
\* a CDP session that still answers and still emits events
ClientLive(c) == clientState[c] = "attached" /\ ConnOpen(clientConn[c])

\* a flag derived from the browser connection held when the update starts
UpdateConnectionStateFromBrowser(ap) == browser # 0

\* updateConnectionState: this._isConnected = this.activePage !== null
UpdateConnectionState(ap) == ap # 0

\* a state-change notification fired twice
FireStateChangeTwice(n) == n + 2

\* updateConnectionState: this.connectionStateEmitter.fire(), counted in n
FireStateChange(n) == n + 1

\* clearHealthCheck: clearInterval(this.healthCheckInterval); handle = null
TimersAfterClear == timers \ {healthCheckInterval}

\* client.detach() is called on c: the transport closes the session
DetachCalled(cs, c) == [cs EXCEPT ![c] = IF @ = "attached" THEN "detached" ELSE @]

(***************************************************************************)
(* disconnect(), from its call to its first suspension: clearHealthCheck();*)
(* stopMonitoring() calls detach on the active session's client and        *)
(* suspends, or returns at once when there is none.  DisconnectTask is the *)
(* call's task after that; StartDisconnect is the state it leaves.         *)
(***************************************************************************)
DisconnectTask(r, k, s) ==
  IF activePage # 0
    THEN [r EXCEPT !.pc = "d_detach", !.kind = k, !.sess = s, !.rdy = FALSE]
    ELSE [r EXCEPT !.pc = "d_afterStop", !.kind = k, !.sess = s, !.rdy = TRUE]

StartDisconnect ==
  /\ healthCheckInterval' = 0
  /\ timers' = TimersAfterClear
  /\ clientState' = IF activePage # 0 THEN DetachCalled(clientState, activePage) ELSE clientState
  /\ UNCHANGED <<connVars, sessVars, clientConn, listeners, noteVars, others>>

\* connect()'s catch block: toast, this.disconnect() (not awaited), return
Catch(r) ==
  /\ StartDisconnect
  /\ tasks' = Replace(r, DisconnectTask(r, "catch", activePage))
  /\ UNCHANGED closeListeners

\* ------------------------------------------------------------- connect()
Connect ==
  /\ Quiet /\ HasFree
  /\ tasks' = Spawn([NewTask("c_connect", "connect") EXCEPT !.held = browser], 1)
  /\ UNCHANGED <<connVars, sessVars, healthVars, clientVars, noteVars, others>>

\* await puppeteer.connect(...) settles
ConnectDone(r, ok) ==
  /\ Quiet /\ r.pc = "c_connect"
  /\ IF ok
       THEN /\ \E b \in Browsers : browserState[b] = "none"
            /\ browser' = FreshBrowser
            /\ browserState' = [browserState EXCEPT ![FreshBrowser] = "open"]
            /\ tasks' = Replace(r, [r EXCEPT !.pc = "c_pages", !.conn = FreshBrowser])
            /\ UNCHANGED <<sessVars, healthVars, clientVars, noteVars, others>>
       ELSE Catch(r)

\* await this.browser.pages() settles; the title/url reads swallow their errors
PagesDone(r, found) ==
  /\ Quiet /\ r.pc = "c_pages"
  /\ IF found
       THEN /\ ConnOpen(r.conn)
            /\ tasks' = Replace(r, [r EXCEPT !.pc = "c_pick"])
            /\ UNCHANGED <<connVars, sessVars, healthVars, clientVars, noteVars, others>>
       ELSE Catch(r)

\* await showQuickPick settles without a selection: connect() returns
PickNone(r) ==
  /\ Quiet /\ r.pc = "c_pick"
  /\ tasks' = Remove(r)
  /\ UNCHANGED <<connVars, sessVars, healthVars, clientVars, noteVars, others>>

\* await showQuickPick settles with a selection: monitorPage() starts
PickDone(r) ==
  /\ Quiet /\ r.pc = "c_pick"
  /\ IF activePage # 0
       THEN \* await this.stopMonitoring(): detach is called on the old client
            /\ tasks' = Replace(r, [r EXCEPT !.pc = "m_detach"])
            /\ clientState' = DetachCalled(clientState, activePage)
       ELSE \* page.createCDPSession() is called
            /\ tasks' = Replace(r, [r EXCEPT !.pc = "m_create"])
            /\ UNCHANGED clientState
  /\ UNCHANGED <<connVars, sessVars, healthVars, clientConn, listeners, closeListeners, noteVars, others>>

\* stopMonitoring(): await this.activePage.client.detach() settles; activePage = null
StopMonitoringDone(r) ==
  /\ Quiet /\ r.pc \in {"m_detach", "d_detach"}
  /\ activePage' = 0
  /\ tasks' = Replace(r, [r EXCEPT !.pc = IF r.pc = "m_detach" THEN "m_afterStop"
                                                              ELSE "d_afterStop",
                                   !.rdy = TRUE])
  /\ UNCHANGED <<connVars, isConnected, healthVars, clientVars, noteVars, others>>

\* monitorPage() resumes after await this.stopMonitoring(): page.createCDPSession()
MonitorAfterStop(r) ==
  /\ r.rdy /\ r.pc = "m_afterStop"
  /\ tasks' = Replace(r, [r EXCEPT !.pc = "m_create", !.rdy = FALSE])
  /\ UNCHANGED <<connVars, sessVars, healthVars, clientVars, noteVars, others>>

\* await page.createCDPSession() settles; the four enable calls are sent
CreateDone(r, ok) ==
  /\ Quiet /\ r.pc = "m_create"
  /\ IF ok
       THEN /\ ConnOpen(r.conn)
            /\ \E c \in Clients : clientState[c] = "none"
            /\ clientState' = [clientState EXCEPT ![FreshClient] = "attached"]
            /\ clientConn' = [clientConn EXCEPT ![FreshClient] = r.conn]
            /\ tasks' = Replace(r, [r EXCEPT !.pc = "m_enable", !.client = FreshClient])
            /\ UNCHANGED <<connVars, sessVars, healthVars, listeners, closeListeners, noteVars, others>>
       ELSE Catch(r)

\* await Promise.all([Page, Network, Runtime, Log .enable]) settles
EnableDone(r, ok) ==
  /\ Quiet /\ r.pc = "m_enable"
  /\ IF ok
       THEN /\ ClientLive(r.client)
            /\ activePage' = r.client
            /\ isConnected' = UpdateConnectionState(r.client)
            /\ lastSession' = r.client
            /\ stateFires' = [stateFires EXCEPT ![r.client] = FireStateChange(@)]
            /\ tasks' = Replace(r, [r EXCEPT !.pc = "m_eval"])
            /\ UNCHANGED <<connVars, healthVars, clientVars, fired, overlap, others>>
       ELSE \* toast; await this.disconnect(); return
            /\ StartDisconnect
            /\ tasks' = Replace(r, DisconnectTask(r, "connect", activePage))
            /\ UNCHANGED closeListeners

\* await page.evaluate(...) settles; setupEventListeners(client)
EvalDone(r, ok) ==
  /\ Quiet /\ r.pc = "m_eval"
  /\ IF ok
       THEN /\ ConnOpen(r.conn)
            /\ healthCheckInterval' = r.client
            /\ timers' = timers \cup {r.client}
            /\ listeners' = listeners \cup {r.client}
            /\ closeListeners' = IF activePage # 0
                                   THEN [closeListeners EXCEPT ![activePage] = @ + 1]
                                   ELSE closeListeners
            /\ tasks' = Replace(r, [r EXCEPT !.pc = "m_notify"])
            /\ UNCHANGED <<connVars, sessVars, clientState, clientConn, noteVars, others>>
       ELSE Catch(r)

\* await this.showSuccessNotification() settles; monitorPage and connect return
NotifyDone(r, ok) ==
  /\ Quiet /\ r.pc = "m_notify"
  /\ IF ok
       THEN /\ tasks' = Remove(r)
            /\ UNCHANGED <<connVars, sessVars, healthVars, clientVars, noteVars, others>>
       ELSE Catch(r)

\* ---------------------------------------------------------- disconnect()
\* disconnectEmitter.fire(), recorded for the session of a health or close handler
FiredAfter(r) ==
  IF r.kind \in {"health", "closed"} /\ r.sess # 0
    THEN [fired EXCEPT ![r.sess] = @ \cup {r.kind}]
    ELSE fired

\* updateConnectionState(); disconnectEmitter.fire(); the call returns
Finish(r) ==
  /\ isConnected' = UpdateConnectionState(activePage)
  /\ fired' = FiredAfter(r)
  /\ tasks' = IF r.kind = "connect"
                THEN \* monitorPage's await this.disconnect() resumes as a microtask
                     Replace(r, [r EXCEPT !.pc = "c_return", !.rdy = TRUE])
                ELSE IF r.kind = "shot"
                THEN \* getPageForScreenshot's await this.handleSessionError() resumes
                     Replace(r, [r EXCEPT !.pc = "g_return", !.rdy = TRUE])
                ELSE Remove(r)
  /\ UNCHANGED <<activePage, healthVars, clientVars, lastSession, overlap, stateFires, others>>

\* disconnect() resumes after await this.stopMonitoring()
DisconnectAfterStop(r) ==
  /\ r.rdy /\ r.pc = "d_afterStop"
  /\ IF browser # 0
       THEN \* this.browser.disconnect() is called: the transport closes the connection
            /\ browserState' = [browserState EXCEPT ![browser] = "closed"]
            /\ tasks' = Replace(r, [r EXCEPT !.pc = "d_browser", !.rdy = FALSE])
            /\ UNCHANGED <<browser, sessVars, healthVars, clientVars, noteVars, others>>
       ELSE Finish(r) /\ UNCHANGED connVars

\* await this.browser.disconnect().catch(() => {}) settles; this.browser = null
BrowserDisconnectDone(r) ==
  /\ Quiet /\ r.pc = "d_browser"
  /\ browser' = 0
  /\ UNCHANGED browserState
  /\ Finish(r)

\* monitorPage returns after its failed enable; connect() returns
ConnectReturn(r) ==
  /\ r.rdy /\ r.pc = "c_return"
  /\ tasks' = Remove(r)
  /\ UNCHANGED <<connVars, sessVars, healthVars, clientVars, noteVars, others>>

\* disconnect() called from outside: the panel's button, dispose()
ApiDisconnect ==
  /\ Quiet /\ HasFree
  /\ StartDisconnect
  /\ tasks' = Spawn(DisconnectTask(NewTask("", ""), "api", activePage), 1)
  /\ UNCHANGED closeListeners

\* ------------------------------------------------------- session loss
\* the setInterval callback fires: client.send("Runtime.evaluate") on its client
HealthTick(c) ==
  /\ Quiet /\ HasFree /\ c \in timers
  /\ tasks' = Spawn([NewTask("h_probe", "health") EXCEPT !.client = c, !.sess = c], 1)
  /\ UNCHANGED <<connVars, sessVars, healthVars, clientVars, noteVars, others>>

\* handleSessionError / handlePageClosed: if (this._isConnected) await this.disconnect()
HandleGuard == isConnected

\* c when the handlers of session c run while c is the session that is connected
\* or being torn down, else 0
OwnSession(c) == IF lastSession = c /\ isConnected THEN c ELSE 0
\* the disconnect() that session c's failed health check started is still running
HealthDisconnecting(c) ==
  \E r \in InFlight : r.kind = "health" /\ r.sess = c
                        /\ r.pc \in {"d_detach", "d_afterStop", "d_browser"}

\* the probe settles; on rejection clearHealthCheck() and handleSessionError()
ProbeDone(r, ok) ==
  /\ Quiet /\ r.pc = "h_probe"
  /\ IF ok
       THEN /\ ClientLive(r.client)
            /\ tasks' = Remove(r)
            /\ UNCHANGED <<connVars, sessVars, healthVars, clientVars, noteVars, others>>
       ELSE IF HandleGuard
         THEN /\ StartDisconnect
              /\ tasks' = Replace(r, DisconnectTask(r, "health", OwnSession(r.client)))
              /\ UNCHANGED closeListeners
         ELSE /\ healthCheckInterval' = 0
              /\ timers' = TimersAfterClear
              /\ tasks' = Remove(r)
              /\ UNCHANGED <<connVars, sessVars, clientVars, noteVars, others>>

\* the page emits close or crash: every registered handler runs handlePageClosed()
PageClosed(c) ==
  /\ Quiet /\ closeListeners[c] > 0
  /\ ConnOpen(clientConn[c])
  /\ IF HandleGuard
       THEN /\ BagCardinality(tasks) + closeListeners[c] <= MaxTasks
            /\ healthCheckInterval' = 0
            /\ timers' = TimersAfterClear
            /\ clientState' = IF activePage # 0 THEN DetachCalled(clientState, activePage)
                                                ELSE clientState
            /\ tasks' = Spawn(DisconnectTask([NewTask("", "") EXCEPT !.client = c], "closed",
                                             OwnSession(c)),
                              closeListeners[c])
            /\ overlap' = IF HealthDisconnecting(c) THEN overlap \cup {c} ELSE overlap
            /\ UNCHANGED <<connVars, sessVars, clientConn, listeners, fired, lastSession,
                           stateFires>>
       ELSE UNCHANGED <<connVars, sessVars, healthVars, clientState, clientConn, listeners,
                        tasks, noteVars>>
  /\ closeListeners' = [closeListeners EXCEPT ![c] = 0]
  /\ UNCHANGED others

\* --------------------------------------------------- getPageForScreenshot()
\* getPageForScreenshot() with a session: await this.activePage.page.evaluate(() => true)
\* (with no session it returns null at once and changes nothing)
GetPageForScreenshot ==
  /\ Quiet /\ HasFree /\ activePage # 0
  /\ \A r \in InFlight : r.kind # "shot"
  /\ tasks' = Spawn([NewTask("g_probe", "shot") EXCEPT !.client = activePage,
                                                       !.conn = clientConn[activePage]], 1)
  /\ UNCHANGED <<connVars, sessVars, healthVars, clientVars, noteVars, others>>

\* the probe settles.  Fulfilled: return this.activePage.page, which throws into the
\* catch block when activePage is null by now.  The catch block awaits
\* handleSessionError() and returns null
ShotProbeDone(r, ok) ==
  /\ Quiet /\ r.pc = "g_probe"
  /\ ok => ConnOpen(r.conn)
  /\ IF ok /\ activePage # 0
       THEN /\ tasks' = Remove(r)
            /\ UNCHANGED <<connVars, sessVars, healthVars, clientVars, noteVars, others>>
       ELSE IF HandleGuard
         THEN /\ StartDisconnect
              /\ tasks' = Replace(r, DisconnectTask(r, "shot", 0))
              /\ UNCHANGED closeListeners
         ELSE /\ tasks' = Replace(r, [r EXCEPT !.pc = "g_return", !.rdy = TRUE])
              /\ UNCHANGED <<connVars, sessVars, healthVars, clientVars, noteVars, others>>

\* getPageForScreenshot() returns null out of its catch block
ShotReturn(r) ==
  /\ r.rdy /\ r.pc = "g_return"
  /\ tasks' = Remove(r)
  /\ UNCHANGED <<connVars, sessVars, healthVars, clientVars, noteVars, others>>

\* ------------------------------------------------------------ log records
\* a[1] sep a[2] sep ... : Array.prototype.join
RECURSIVE Join(_, _)
Join(a, sep) ==
  IF Len(a) = 0 THEN ""
  ELSE IF Len(a) = 1 THEN a[1]
  ELSE a[1] \o sep \o Join(Tail(a), sep)

\* x || y on strings: "" is falsy
OrElse(x, y) == IF x # "" THEN x ELSE y

\* a protocol RemoteObject; "" and <<>> stand for an absent field
Arg(type, subtype, value, description, hasPreview, props) ==
  [type |-> type, subtype |-> subtype, value |-> value, description |-> description,
   hasPreview |-> hasPreview, props |-> props]
StringArg(v) == Arg("string", "", v, "", FALSE, <<>>)
NumberArg(n) == Arg("number", "", n, "", FALSE, <<>>)

\* the callback of e.args.map(...) in the Runtime.consoleAPICalled handler; the
\* previews the events below carry have no properties
FormatArg(arg) ==
  IF arg.type = "object" /\ arg.hasPreview
    THEN OrElse(arg.description, "Object {}")
  ELSE IF arg.type = "function" THEN OrElse(arg.description, "function")
  ELSE IF arg.type = "undefined" THEN "undefined"
  ELSE IF arg.type = "string" THEN arg.value
  ELSE IF arg.type = "number" THEN ToString(arg.value)
  ELSE IF arg.type = "symbol" THEN OrElse(arg.description, "Symbol()")
  ELSE IF arg.subtype = "error" THEN OrElse(arg.description, OrElse(arg.value, "Error"))
  ELSE OrElse(arg.value, arg.description)

\* logType of the Runtime.consoleAPICalled handler
ApiLogType(type) ==
  IF type = "warning" THEN "warn"
  ELSE IF type \in {"debug", "log", "info", "error"} THEN type
  ELSE "log"

\* logType of the Log.entryAdded handler
EntryLogType(level) ==
  IF level = "warning" THEN "warn"
  ELSE IF level \in {"error", "info"} THEN level
  ELSE "log"

\* the BrowserLog a console event becomes (its timestamp, Date.now(), is left out)
Normalize(e) ==
  IF e.src = "api"
    THEN [type |-> ApiLogType(e.type),
          text |-> Join([i \in 1..Len(e.args) |-> FormatArg(e.args[i])], " ")]
    ELSE [type |-> EntryLogType(e.level), text |-> e.text]

\* the console events the browser sends
ApiEvents == { [src |-> "api", type |-> "warning", args |-> <<StringArg("hi"), NumberArg(7)>>] }
EntryEvents == { [src |-> "entry", level |-> "verbose", text |-> "v"] }

\* the NetworkRequest of a Network.responseReceived event
ResponseRecord(e) == [url |-> e.url, status |-> e.status, error |-> ""]
\* a load-failure record that drops the failure reason
FailedRecordWithoutError(e) == [url |-> "Failed request", status |-> 0, error |-> ""]
\* the NetworkRequest of a Network.loadingFailed event
FailedRecord(e) == [url |-> "Failed request", status |-> 0, error |-> e.errorText]
ResponseEvents == { [url |-> "/a", status |-> 404] }
FailedEvents == { [errorText |-> "net::ERR_FAILED"] }

\* ------------------------------------------------------------- log buffers
ArrayIds == 1..4
\* no LogData handed out yet
NoSnapshot == [console |-> 0, network |-> 0]
Referenced(c, n, snap) == {c, n} \cup ({snap.console, snap.network} \ {0})
\* arrays nothing refers to any more are collected
Collect(h, live) == [a \in ArrayIds |-> IF a \in live THEN h[a] ELSE <<>>]
LowestFree(used) == CHOOSE a \in ArrayIds \ used : \A b \in ArrayIds \ used : a <= b

\* Array.prototype.unshift in place of push
PushFront(a, x) == <<x>> \o a

\* Array.prototype.push
Push(a, x) == Append(a, x)

\* getLogs(): { console: this.consoleLogs, network: this.networkLogs }
GetLogsResult == [console |-> consoleLogs, network |-> networkLogs]
\* what a holder of the LogData d reads from it
Contents(d) == [console |-> arrays[d.console], network |-> arrays[d.network]]

\* some session's client.on(...) handlers can be called
Listening == \E c \in listeners : ClientLive(c)

\* a handler that fires the notification twice
FireNewLogTwice(fires, buffer, log) ==
  Append(Append(fires, [log |-> log, at |-> Len(buffer)]), [log |-> log, at |-> Len(buffer)])

\* this.newLogEmitter.fire(log), called with the buffer as it is at that moment:
\* at is the number of records a listener then finds in the console buffer
FireNewLog(fires, buffer, log) == Append(fires, [log |-> log, at |-> Len(buffer)])

\* the Runtime.consoleAPICalled and Log.entryAdded handlers
ConsoleEvent(e) ==
  /\ Quiet /\ Listening
  /\ Len(arrays[consoleLogs]) < MaxLogs
  /\ arrays' = [arrays EXCEPT ![consoleLogs] = Push(@, Normalize(e))]
  /\ arrived' = Append(arrived, e)
  /\ newLog' = FireNewLog(newLog, arrays'[consoleLogs], Normalize(e))
  /\ cleared' = 0
  /\ UNCHANGED <<monitorVars, deliverVars, consoleLogs, networkLogs, snapshot, arrivedNetwork>>

\* the NetworkRequest the handler of the event builds
NetworkRecord(e) == IF "errorText" \in DOMAIN e THEN FailedRecord(e) ELSE ResponseRecord(e)

\* the Network.responseReceived and Network.loadingFailed handlers
NetworkEvent(e) ==
  /\ Quiet /\ Listening
  /\ Len(arrays[networkLogs]) < MaxLogs
  /\ arrays' = [arrays EXCEPT ![networkLogs] = Push(@, NetworkRecord(e))]
  /\ arrivedNetwork' = Append(arrivedNetwork, e)
  /\ cleared' = 0
  /\ UNCHANGED <<monitorVars, deliverVars, consoleLogs, networkLogs, snapshot, arrived, newLog>>

\* a clearLogs() that resets the console buffer only
ClearLogsConsoleOnly ==
  /\ Quiet
  /\ consoleLogs' = LowestFree({networkLogs, snapshot.console, snapshot.network} \ {0})
  /\ arrays' = Collect(arrays, Referenced(consoleLogs', networkLogs, snapshot))
  /\ arrived' = <<>>
  /\ newLog' = <<>>
  /\ cleared' = Len(arrays[consoleLogs])
  /\ UNCHANGED <<monitorVars, deliverVars, networkLogs, snapshot, arrivedNetwork>>

\* a clearLogs() that also marks the manager disconnected
ClearLogsResettingFlag ==
  /\ Quiet
  /\ LET keep == {snapshot.console, snapshot.network} \ {0}
         c == LowestFree(keep)
         n == LowestFree(keep \cup {c})
     IN /\ consoleLogs' = c
        /\ networkLogs' = n
        /\ arrays' = [a \in ArrayIds |-> IF a \in keep THEN arrays[a] ELSE <<>>]
  /\ arrived' = <<>>
  /\ arrivedNetwork' = <<>>
  /\ newLog' = <<>>
  /\ cleared' = Len(arrays[consoleLogs]) + Len(arrays[networkLogs])
  /\ isConnected' = FALSE
  /\ UNCHANGED <<connVars, activePage, healthVars, clientVars, tasks, noteVars,
                 deliverVars, snapshot>>

\* clearLogs(): this.consoleLogs = []; this.networkLogs = []
ClearLogs ==
  /\ Quiet
  /\ LET keep == {snapshot.console, snapshot.network} \ {0}
         c == LowestFree(keep)
         n == LowestFree(keep \cup {c})
     IN /\ consoleLogs' = c
        /\ networkLogs' = n
        /\ arrays' = [a \in ArrayIds |-> IF a \in keep THEN arrays[a] ELSE <<>>]
  /\ arrived' = <<>>
  /\ arrivedNetwork' = <<>>
  /\ newLog' = <<>>
  /\ cleared' = Len(arrays[consoleLogs]) + Len(arrays[networkLogs])
  /\ UNCHANGED <<monitorVars, deliverVars, snapshot>>

\* getLogs(), its result kept by the caller
GetLogs ==
  /\ Quiet
  /\ snapshot' = GetLogsResult
  /\ arrays' = Collect(arrays, Referenced(consoleLogs, networkLogs, GetLogsResult))
  /\ UNCHANGED <<monitorVars, deliverVars, consoleLogs, networkLogs, arrived, arrivedNetwork,
                 newLog, cleared>>

\* ---------------------------------------------------------- sendToComposer
\* const maxRetries = 2
maxRetries == 2

\* the lines formatLogs writes for the console records
RECURSIVE ConsoleLines(_)
ConsoleLines(logs) ==
  IF logs = <<>> THEN ""
  ELSE logs[1].type \o ": " \o logs[1].text \o "\n" \o ConsoleLines(Tail(logs))

\* the lines formatLogs writes for the network records
RECURSIVE NetworkLines(_)
NetworkLines(logs) ==
  IF logs = <<>> THEN ""
  ELSE (IF logs[1].error # ""
          THEN "Failed: " \o logs[1].url \o " (" \o logs[1].error \o ")\n"
          ELSE ToString(logs[1].status) \o ": " \o logs[1].url \o "\n")
       \o NetworkLines(Tail(logs))

formatLogs(logs) ==
  "---Console Logs---\n" \o ConsoleLines(logs.console)
  \o "\n---Network Requests---\n" \o NetworkLines(logs.network)

\* the logs argument: given is FALSE when the caller passes undefined
LogInputs ==
  { [given |-> FALSE, console |-> <<>>, network |-> <<>>],
    [given |-> TRUE, console |-> <<>>, network |-> <<>>],
    [given |-> TRUE,
     console |-> << Normalize(CHOOSE e \in ApiEvents : TRUE) >>,
     network |-> << FailedRecord(CHOOSE e \in FailedEvents : TRUE) >>] }

\* the locals of a sendToComposer call as it starts, and the record of what it does:
\* opens: destination-open commands executed; imageVerified, textVerified: the result
\* of each verification; staged: temp files written; unlinks: temp files whose removal
\* was requested; faults: a step other than a verification failed; given: the caller
\* passed a logs argument; iterations: loop bodies entered; enoent: a write found no staging directory although the
\* mkdir issued with it succeeded
NewSend(screenshot, formattedLogs) ==
  [pc |-> "idle", screenshot |-> screenshot, given |-> FALSE, formattedLogs |-> formattedLogs,
   imageAttempt |-> 0, textAttempt |-> 0, imageSuccess |-> FALSE, textSuccess |-> FALSE,
   tmpFile |-> 0, opens |-> 0, imageVerified |-> <<>>, textVerified |-> <<>>,
   staged |-> <<>>, unlinks |-> <<>>, faults |-> FALSE, enoent |-> FALSE, iterations |-> 0,
   result |-> "pending", error |-> "", notified |-> FALSE]

Sending == send.pc \notin {"idle", "done"}

\* the condition of the while loop
LoopCond(s) ==
  \/ s.screenshot /\ ~s.imageSuccess /\ s.imageAttempt <= maxRetries
  \/ s.formattedLogs # "" /\ ~s.textSuccess /\ s.textAttempt <= maxRetries

\* the call ends: return, or throw error out of the outer catch
Returned(s) == [s EXCEPT !.pc = "done", !.result = "returned"]
Raised(s, msg) == [s EXCEPT !.pc = "done", !.result = "raised", !.error = msg]
Fault(s) == [s EXCEPT !.faults = TRUE]

\* the loop head: leave the loop, or call openComposer, which returns at once when
\* composerOpened is set
Begin(s, opened) ==
  IF ~LoopCond(s) THEN Returned(s)
  ELSE IF opened THEN [s EXCEPT !.pc = IF s.screenshot /\ ~s.imageSuccess THEN "i_clear"
                                                                          ELSE "t_clear",
                                !.iterations = @ + 1]
  ELSE [s EXCEPT !.pc = "open", !.iterations = @ + 1]

\* the end of an iteration: notify when everything requested is delivered, else run
\* the finally block and go round the loop
IterationEnd(s) ==
  IF (~s.screenshot \/ s.imageSuccess) /\ (s.formattedLogs = "" \/ s.textSuccess)
    THEN [s EXCEPT !.pc = "notify"]
    ELSE Begin(s, FALSE)

\* a text branch that does not test formattedLogs
TextPartUnguarded(s) ==
  IF ~s.textSuccess THEN [s EXCEPT !.pc = "t_clear"]
  ELSE IterationEnd(s)

\* if (formattedLogs && !textSuccess) { await delay(50); await clearClipboard(); ...
TextPart(s) ==
  IF s.formattedLogs # "" /\ ~s.textSuccess THEN [s EXCEPT !.pc = "t_clear"]
  ELSE IterationEnd(s)

\* if (screenshot && !imageSuccess) { await clearClipboard(); ...
ImagePart(s) ==
  IF s.screenshot /\ ~s.imageSuccess THEN [s EXCEPT !.pc = "i_clear"]
  ELSE TextPart(s)

\* a catch block that gives up one attempt early
ImageFailedOffByOne(s) ==
  IF s.imageAttempt + 1 = maxRetries THEN Raised(s, "Failed to send image")
  ELSE TextPart([s EXCEPT !.imageAttempt = @ + 1])

\* the catch block of the image attempt
ImageFailed(s) ==
  IF s.imageAttempt = maxRetries THEN Raised(s, "Failed to send image")
  ELSE TextPart([s EXCEPT !.imageAttempt = @ + 1])

\* a catch block that never gives up
TextFailedNoLimit(s) == IterationEnd([s EXCEPT !.textAttempt = @ + 1])

\* the catch block of the text attempt
TextFailed(s) ==
  IF s.textAttempt = maxRetries THEN Raised(s, "Failed to send logs")
  ELSE IterationEnd([s EXCEPT !.textAttempt = @ + 1])

\* a finally block that forgets the temp file
UnlinkTmpFileSkipped(s) == [s EXCEPT !.tmpFile = 0]

\* the finally block of sendImageToComposer: if (tmpFile) fs.unlink(tmpFile)
UnlinkTmpFile(s) ==
  IF s.tmpFile # 0 THEN [s EXCEPT !.unlinks = Append(@, s.tmpFile), !.tmpFile = 0] ELSE s

\* a loop body without its finally block
OpenedAfterNoFinally(s2, opened) == opened

\* this.composerOpened once the call stands at s2: the finally block of the loop body
\* has run when the call has ended or is at the head of a new iteration
OpenedAfter(s2, opened) == IF s2.pc \in {"open", "done"} THEN FALSE ELSE opened

\* the next unused temp file name (Date.now() grows)
FreshFile == CHOOSE f \in FileIds : files[f] = "absent" /\ \A g \in FileIds : files[g] = "absent" => f <= g

SendToComposer(screenshot, logs) ==
  /\ ~Sending
  /\ LET s2 == Begin([NewSend(screenshot, IF logs.given THEN formatLogs(logs) ELSE "")
                        EXCEPT !.given = logs.given],
                     composerOpened)
     IN /\ send' = s2
        /\ composerOpened' = OpenedAfter(s2, composerOpened)
  /\ UNCHANGED <<monitorVars, logVars, clipboard, files, unlinking, tmpDir>>

\* openComposer: the destination-open command completes; a failure is swallowed
OpenDone(ok) ==
  /\ send.pc = "open"
  /\ send' = ImagePart([send EXCEPT !.opens = @ + 1, !.faults = @ \/ ~ok])
  /\ composerOpened' = ok
  /\ UNCHANGED <<monitorVars, logVars, clipboard, files, unlinking, tmpDir>>

\* clearClipboard() completes
ClearDone(ok) ==
  /\ send.pc \in {"i_clear", "t_clear"}
  /\ LET s2 == IF ok THEN [send EXCEPT !.pc = IF send.pc = "i_clear" THEN "i_stage" ELSE "t_copy"]
               ELSE Raised(Fault(send), "clearClipboard")
     IN /\ send' = s2
        /\ composerOpened' = OpenedAfter(s2, composerOpened)
  /\ clipboard' = IF ok THEN "empty" ELSE clipboard
  /\ UNCHANGED <<monitorVars, logVars, files, unlinking, tmpDir>>

\* the directory exists when the write runs: it was there before, or the write ran
\* after a mkdir that created it
DirAtWrite(mkdirOk, writeFirst) == tmpDir \/ (mkdirOk /\ ~writeFirst)

(***************************************************************************)
(* sendImageToComposer: await Promise.all([fs.mkdir(tmpDir, recursive),    *)
(* fs.writeFile(tmpFilePath, screenshot)]) settles.  Both operations are   *)
(* issued together and run in either order (writeFirst); each can meet an  *)
(* I/O error of its own (mkdirOk, writeOk), and the write also fails when  *)
(* the directory is not there as it runs.  tmpFile is assigned only when   *)
(* both succeeded.                                                         *)
(***************************************************************************)
StageDone(mkdirOk, writeOk, writeFirst) ==
  /\ send.pc = "i_stage"
  /\ tmpDir' = (tmpDir \/ mkdirOk)
  /\ LET written == writeOk /\ DirAtWrite(mkdirOk, writeFirst)
         s1 == IF written THEN [send EXCEPT !.staged = Append(@, FreshFile)] ELSE send
         s2 == IF mkdirOk /\ written
                 THEN [s1 EXCEPT !.pc = "i_copy", !.tmpFile = FreshFile]
                 ELSE ImageFailed(Fault([s1 EXCEPT !.enoent =
                                           @ \/ (mkdirOk /\ writeOk /\ ~written)]))
     IN /\ written => \E f \in FileIds : files[f] = "absent"
        /\ files' = IF written THEN [files EXCEPT ![FreshFile] = "written"] ELSE files
        /\ send' = s2
        /\ composerOpened' = OpenedAfter(s2, composerOpened)
  /\ UNCHANGED <<monitorVars, logVars, clipboard, unlinking>>

\* sendImageToComposer: copyImageToClipboard(tmpFile) completes
CopyImageDone(ok) ==
  /\ send.pc = "i_copy"
  /\ LET s2 == IF ok THEN [send EXCEPT !.pc = "i_paste"]
               ELSE ImageFailed(UnlinkTmpFile(Fault(send)))
     IN /\ send' = s2
        /\ composerOpened' = OpenedAfter(s2, composerOpened)
  /\ clipboard' = IF ok THEN "image" ELSE clipboard
  /\ unlinking' = IF ok THEN unlinking ELSE unlinking \cup {send.tmpFile}
  /\ UNCHANGED <<monitorVars, logVars, files, tmpDir>>

\* prepareTextForComposer: copyTextToClipboard(text) completes
CopyTextDone(ok) ==
  /\ send.pc = "t_copy"
  /\ LET s2 == IF ok THEN [send EXCEPT !.pc = "t_paste"] ELSE TextFailed(Fault(send))
     IN /\ send' = s2
        /\ composerOpened' = OpenedAfter(s2, composerOpened)
  /\ clipboard' = IF ok THEN "text" ELSE clipboard
  /\ UNCHANGED <<monitorVars, logVars, files, unlinking, tmpDir>>

\* the paste command completes; sendImageToComposer's finally block requests the
\* removal of the temp file without waiting for it
PasteDone(ok) ==
  /\ send.pc \in {"i_paste", "t_paste"}
  /\ LET s2 == IF send.pc = "i_paste"
                 THEN IF ok THEN [UnlinkTmpFile(send) EXCEPT !.pc = "i_verify"]
                            ELSE ImageFailed(UnlinkTmpFile(Fault(send)))
                 ELSE IF ok THEN [send EXCEPT !.pc = "t_verify"]
                            ELSE TextFailed(Fault(send))
     IN /\ send' = s2
        /\ composerOpened' = OpenedAfter(s2, composerOpened)
  /\ unlinking' = IF send.pc = "i_paste" THEN unlinking \cup {send.tmpFile} ELSE unlinking
  /\ UNCHANGED <<monitorVars, logVars, clipboard, files, tmpDir>>

\* verifyClipboardContent(kind) reads the clipboard and throws unless it holds kind
VerifyClipboardContent(kind) == clipboard = kind

\* a verification whose result is ignored
VerifyDoneUnchecked ==
  /\ send.pc \in {"i_verify", "t_verify"}
  /\ LET s2 ==
       IF send.pc = "i_verify"
         THEN TextPart([send EXCEPT !.imageVerified = Append(@, VerifyClipboardContent("image")),
                                    !.imageSuccess = TRUE])
         ELSE IterationEnd([send EXCEPT !.textVerified = Append(@, VerifyClipboardContent("text")),
                                        !.textSuccess = TRUE])
     IN /\ send' = s2
        /\ composerOpened' = OpenedAfter(s2, composerOpened)
  /\ UNCHANGED <<monitorVars, logVars, clipboard, files, unlinking, tmpDir>>

\* await verifyClipboardContent(...) settles: success is recorded, or the catch block runs
VerifyDone ==
  /\ send.pc \in {"i_verify", "t_verify"}
  /\ LET s2 ==
       IF send.pc = "i_verify"
         THEN LET v == [send EXCEPT !.imageVerified = Append(@, VerifyClipboardContent("image"))]
              IN IF VerifyClipboardContent("image")
                   THEN TextPart([v EXCEPT !.imageSuccess = TRUE])
                   ELSE ImageFailed(v)
         ELSE LET v == [send EXCEPT !.textVerified = Append(@, VerifyClipboardContent("text"))]
              IN IF VerifyClipboardContent("text")
                   THEN IterationEnd([v EXCEPT !.textSuccess = TRUE])
                   ELSE TextFailed(v)
     IN /\ send' = s2
        /\ composerOpened' = OpenedAfter(s2, composerOpened)
  /\ UNCHANGED <<monitorVars, logVars, clipboard, files, unlinking, tmpDir>>

\* showSuccessNotification() completes
SuccessNotificationDone(ok) ==
  /\ send.pc = "notify"
  /\ send' = IF ok THEN Returned([send EXCEPT !.notified = TRUE])
             ELSE Raised(Fault(send), "showSuccessNotification")
  /\ composerOpened' = FALSE
  /\ UNCHANGED <<monitorVars, logVars, clipboard, files, unlinking, tmpDir>>

\* an fs.unlink(tmpFile) completes; its failure is logged
UnlinkDone(f, ok) ==
  /\ f \in unlinking
  /\ unlinking' = unlinking \ {f}
  /\ files' = IF ok THEN [files EXCEPT ![f] = "removed"] ELSE files
  /\ UNCHANGED <<monitorVars, logVars, composerOpened, send, clipboard, tmpDir>>

\* another program writes the clipboard during a delivery
ExternalWrite ==
  /\ Sending /\ clipboard # "other"
  /\ clipboard' = "other"
  /\ UNCHANGED <<monitorVars, logVars, composerOpened, send, files, unlinking, tmpDir>>

\* ------------------------------------------------------------- properties
\* getLogs().console and getLogs().network as a caller reads them now
CurrentLogs == Contents(GetLogsResult)
EmptyLogs == [console |-> <<>>, network |-> <<>>]

\* C1: when session c's liveness check fails and c's page closes or crashes while
\* the resulting disconnect() is still running, onDisconnect fires once for c, not
\* once for each of the two handlers
C1_SingleDisconnectNotification ==
  \A c \in overlap : ~({"health", "closed"} \subseteq fired[c])

\* a step in which a connect() call that failed returns to its caller: its catch
\* block ran, or monitorPage returned after its failed enable
ConnectFailedReturn(r) == r.kind = "connect" /\ (Catch(r) \/ ConnectReturn(r))

\* C2: at the moment a failed connect() returns, isConnected() is false and the
\* protocol channel the call created has had detach called on it
C2_FailedConnectLeavesNothingOpen ==
  [][\A r \in InFlight :
       ConnectFailedReturn(r) =>
         /\ ~isConnected'
         /\ r.client # 0 => clientState'[r.client] = "detached"]_vars

\* C3: at every state in which each call is suspended on I/O (and so at every
\* suspension point inside connect(), session initialization and disconnect()),
\* isConnected() is true exactly when activePage is non-null
C3_FlagIsSessionNonNull == Quiet => (isConnected <=> activePage # 0)

\* the protocol channels that are attached with their listeners feeding the buffers
LiveSessions == {c \in listeners : ClientLive(c)}

\* C4: at most one protocol channel created by session initialization is attached
\* with its event listeners registered
C4_AtMostOneLiveSession == Cardinality(LiveSessions) <= 1

\* the call was asked for exactly one artifact; Verified(s) is the results of that
\* artifact's verifications
SingleArtifact(s) == s.screenshot # (s.formattedLogs # "")
Verified(s) == IF s.screenshot THEN s.imageVerified ELSE s.textVerified

\* C5: a call for a single artifact whose verification failed twice is still
\* running, and when the third verification passes it shows the success
\* notification and returns without raising
C5_ThirdAttemptSucceeds ==
  (send.pc # "idle" /\ SingleArtifact(send) /\ ~send.faults) =>
    /\ Verified(send) = <<FALSE, FALSE>> => send.result = "pending"
    /\ Verified(send) = <<FALSE, FALSE, TRUE>> =>
         \/ send.pc = "notify" /\ send.result = "pending"
         \/ send.pc = "done" /\ send.result = "returned" /\ send.notified

\* C5 witness: a screenshot-only call has ended this way
C5_Witness ==
  /\ send.pc = "done" /\ send.result = "returned" /\ send.notified /\ ~send.faults
  /\ SingleArtifact(send) /\ send.screenshot
  /\ Verified(send) = <<FALSE, FALSE, TRUE>>

\* every verification of the call failed, nothing else did, and the call has ended
AlwaysFailed(s) ==
  /\ s.pc = "done" /\ ~s.faults
  /\ s.screenshot \/ s.formattedLogs # ""
  /\ \A i \in 1..Len(s.imageVerified) : ~s.imageVerified[i]
  /\ \A i \in 1..Len(s.textVerified) : ~s.textVerified[i]

\* the call raised for the artifact the message names after 3 verified attempts of it
RaisedAfterThree(s) ==
  /\ s.result = "raised"
  /\ s.error = (IF s.screenshot THEN "Failed to send image" ELSE "Failed to send logs")
  /\ Len(IF s.screenshot THEN s.imageVerified ELSE s.textVerified) = maxRetries + 1
  /\ Len(s.imageVerified) <= maxRetries + 1 /\ Len(s.textVerified) <= maxRetries + 1

\* how many of the removals requested by the call are of file f
Removals(s, f) == Cardinality({i \in 1..Len(s.unlinks) : s.unlinks[i] = f})

\* C6 as stated: when every verification fails the call raises after exactly 3
\* attempts of the failing artifact, and a call with a screenshot requests the
\* removal of a temp file exactly once
C6_OneRemovalInTheCall ==
  AlwaysFailed(send) =>
    /\ RaisedAfterThree(send)
    /\ send.screenshot => Len(send.unlinks) = 1

\* C6 amended: when every verification fails the call raises after exactly 3
\* attempts of the failing artifact, and a call with a screenshot has staged one temp
\* file in each of the 3 attempts and requested the removal of each exactly once
C6_OneRemovalPerAttempt ==
  AlwaysFailed(send) =>
    /\ RaisedAfterThree(send)
    /\ send.screenshot =>
         /\ Len(send.staged) = maxRetries + 1
         /\ \A i, j \in 1..Len(send.staged) : send.staged[i] = send.staged[j] => i = j
         /\ \A f \in FileIds :
              Removals(send, f) = IF \E i \in 1..Len(send.staged) : send.staged[i] = f
                                    THEN 1 ELSE 0

\* C6 witness: a call with a screenshot failed every verification and has raised
C6_Witness ==
  /\ AlwaysFailed(send) /\ send.screenshot
  /\ send.imageVerified = <<FALSE, FALSE, FALSE>>
  /\ send.result = "raised"

\* a step of a disconnect() call: its start, or a resumption
DisconnectPcs == {"d_detach", "d_afterStop", "d_browser"}
DisconnectStep ==
  \/ \E r \in BagToSet(tasks') : r.pc \in DisconnectPcs /\ CopiesIn(r, tasks') > CopiesIn(r, tasks)
  \/ \E r \in InFlight : r.pc \in DisconnectPcs /\ CopiesIn(r, tasks') < CopiesIn(r, tasks)

\* C7: every step of a disconnect() that runs while no session is active leaves the
\* session absent, isConnected() false and both log buffers as they were
C7_DisconnectWithoutSessionIsNoOp ==
  [][(activePage = 0 /\ ~isConnected /\ DisconnectStep) =>
       (activePage' = 0 /\ ~isConnected' /\ CurrentLogs' = CurrentLogs)]_vars

\* C7 witness: a disconnect() called with no session is waiting for the browser to
\* be released, with records in both buffers
C7_Witness ==
  /\ activePage = 0 /\ ~isConnected
  /\ CurrentLogs.console # <<>> /\ CurrentLogs.network # <<>>
  /\ \E r \in InFlight : r.kind = "api" /\ r.pc = "d_browser"

\* C8: getLogs().console is the normalized console events in arrival order, one
\* record for each event handled since the last clearLogs()
C8_ConsoleKeepsArrivalOrder ==
  CurrentLogs.console = [i \in 1..Len(arrived) |-> Normalize(arrived[i])]

\* C8 witness: two different console events and a network event have been handled
C8_Witness ==
  /\ Len(arrived) = 2 /\ arrived[1] # arrived[2]
  /\ CurrentLogs.network # <<>>

\* C9: getLogs() right after clearLogs() returns two empty sequences, and no step
\* shortens one buffer and leaves records in the other
C9_ClearIsAtomic ==
  [][/\ ClearLogs => CurrentLogs' = EmptyLogs
     /\ (\/ Len(CurrentLogs'.console) < Len(CurrentLogs.console)
         \/ Len(CurrentLogs'.network) < Len(CurrentLogs.network)) => CurrentLogs' = EmptyLogs]_vars

\* C9 witness: clearLogs() has just discarded records of both buffers
C9_Witness == cleared > MaxLogs /\ CurrentLogs = EmptyLogs

\* C10: the LogData a getLogs() call returned keeps its contents whatever happens
\* after the call, and getLogs() leaves the buffers unchanged
C10_GetLogsReturnsACopy ==
  [][/\ (snapshot # NoSnapshot /\ snapshot' = snapshot) => Contents(snapshot)' = Contents(snapshot)
     /\ GetLogs => CurrentLogs' = CurrentLogs]_vars

\* the positions of a call inside its image branch and inside its text branch
ImagePcs == {"i_clear", "i_stage", "i_copy", "i_paste", "i_verify"}
TextPcs == {"t_clear", "t_copy", "t_paste", "t_verify"}

\* a call given no screenshot has done nothing of the image path
NoImageWork(s) ==
  /\ s.pc \notin ImagePcs /\ s.tmpFile = 0
  /\ s.staged = <<>> /\ s.unlinks = <<>> /\ s.imageVerified = <<>>
\* a call given no logs has done nothing of the text path
NoTextWork(s) ==
  /\ s.formattedLogs = "" /\ s.pc \notin TextPcs /\ s.textVerified = <<>>

\* C12: after every step, a call given only logs has staged no temp file, requested
\* no removal, run no image verification and is not in its image branch, and no
\* step of it puts an image on the clipboard; a call given only a screenshot has
\* formatted nothing, run no text verification and is not in its text branch, and
\* no step of it puts text on the clipboard
C12_ArtifactPathsAreSeparate ==
  [][/\ (send'.pc # "idle" /\ ~send'.screenshot) =>
          /\ NoImageWork(send')
          /\ clipboard' = "image" => clipboard = "image"
     /\ (send'.pc # "idle" /\ ~send'.given) =>
          /\ NoTextWork(send')
          /\ clipboard' = "text" => clipboard = "text"]_vars

\* C12 witness: a call given only logs has delivered them
C12_Witness ==
  /\ send.pc = "done" /\ send.result = "returned"
  /\ send.given /\ ~send.screenshot /\ send.textVerified # <<>>
  /\ clipboard = "text"

\* a step in which getPageForScreenshot() returns null after its probe was rejected
\* or found the session gone
ShotReturnsNull(r) == r.kind = "shot" /\ ShotReturn(r)
\* a step in which getPageForScreenshot() returns a page handle
ShotReturnsPage(r) ==
  r.kind = "shot" /\ r.pc = "g_probe" /\ tasks' = Remove(r) /\ UNCHANGED <<sessVars, connVars>>

\* C13: getPageForScreenshot() returns a page only with a session active at that
\* moment, and when it returns null after its probe isConnected() is false
C13_NullMeansDisconnected ==
  [][\A r \in InFlight :
       /\ ShotReturnsPage(r) => activePage' # 0
       /\ ShotReturnsNull(r) => ~isConnected']_vars

\* C14: when a call ends by raising, composerOpened is false, and the next call
\* that has an artifact to deliver starts by executing the destination-open command
C14_MarkerReleasedOnError ==
  [][/\ (send'.pc = "done" /\ send'.result = "raised") => ~composerOpened'
     /\ (send.pc = "done" /\ send.result = "raised" /\ send'.pc # "done") =>
          send'.pc = "open"]_vars

\* C14 witness: a call that had opened the destination has raised
C14_Witness ==
  /\ send.pc = "done" /\ send.result = "raised" /\ send.opens > 0
  /\ ~composerOpened

\* the artifacts the message of the raised error identifies
Named(error) ==
  IF error = "Failed to send image" THEN {"image"}
  ELSE IF error = "Failed to send logs" THEN {"logs"}
  ELSE {}
\* the requested artifacts the call did not deliver
Undelivered(s) ==
  (IF s.screenshot /\ ~s.imageSuccess THEN {"image"} ELSE {})
  \cup (IF s.formattedLogs # "" /\ ~s.textSuccess THEN {"logs"} ELSE {})

\* C15: when a call for both artifacts raises because verifications failed, the
\* error identifies exactly the requested artifacts that were not delivered
C15_ErrorNamesEveryFailedArtifact ==
  (/\ send.pc = "done" /\ send.result = "raised" /\ ~send.faults
   /\ send.screenshot /\ send.formattedLogs # "")
    => Named(send.error) = Undelivered(send)

\* the record the claim prescribes for a network event
PrescribedRecord(e) ==
  IF "errorText" \in DOMAIN e
    THEN [url |-> "Failed request", status |-> 0, error |-> e.errorText]
    ELSE [url |-> e.url, status |-> e.status, error |-> ""]

\* C16: the network buffer holds one record for each network event handled since
\* the last clearLogs(), in arrival order: status 0, url "Failed request" and the
\* event's failure reason for a load failure; the event's url and status and no
\* error for a response
C16_NetworkRecords ==
  CurrentLogs.network = [i \in 1..Len(arrivedNetwork) |-> PrescribedRecord(arrivedNetwork[i])]

\* C16 witness: a load failure and then a response have been handled
C16_Witness ==
  /\ Len(arrivedNetwork) = 2
  /\ "errorText" \in DOMAIN arrivedNetwork[1]
  /\ "errorText" \notin DOMAIN arrivedNetwork[2]

\* C17: onNewLog has fired once for each console event handled since the last
\* clearLogs(), in order, each time with the record already in the console buffer,
\* and has not fired for any network event
C17_NewLogOncePerConsoleEvent ==
  /\ Len(newLog) = Len(arrived)
  /\ \A i \in 1..Len(newLog) :
       /\ newLog[i].log = Normalize(arrived[i])
       /\ newLog[i].at = i
       /\ CurrentLogs.console[i] = newLog[i].log

\* C17 witness: two console events and two network events have been handled
C17_Witness == Len(newLog) = 2 /\ Len(arrivedNetwork) = 2 /\ newLog[1].log # newLog[2].log

\* C18: when connect() returns because nothing was selected at the prompt, the
\* browser connection held is the one held when connect() was called, the step
\* leaves the session, the flag, the liveness timer and the log buffers as they
\* were, and onDisconnect has not fired
C18_NoSelectionIsNoOp ==
  [][\A r \in InFlight :
       PickNone(r) =>
         /\ browser' = r.held
         /\ UNCHANGED <<sessVars, healthVars, fired>>
         /\ CurrentLogs' = CurrentLogs]_vars

\* a step in which the disconnect() call r runs to its end
DisconnectCompletes(r) ==
  \/ r.pc = "d_afterStop" /\ browser = 0 /\ DisconnectAfterStop(r)
  \/ r.pc = "d_browser" /\ BrowserDisconnectDone(r)

\* C19: when a disconnect() call completes, whatever ran interleaved with it, the
\* session is absent and isConnected() is false
C19_DisconnectEndsDisconnected ==
  [][\A r \in InFlight :
       DisconnectCompletes(r) => (activePage' = 0 /\ ~isConnected')]_vars

\* a step that handles the rejected probe of a session that is not the current one
StaleHealthFailure(r) ==
  /\ r.kind = "health" /\ r.pc = "h_probe"
  /\ activePage # 0 /\ r.client # activePage
  /\ ProbeDone(r, FALSE)

\* C20: handling the liveness failure of a replaced session leaves the current
\* session attached and active and its liveness timer armed
C20_StaleFailureSparesCurrentSession ==
  [][\A r \in InFlight :
       StaleHealthFailure(r) =>
         /\ activePage' = activePage
         /\ clientState'[activePage] = clientState[activePage]
         /\ healthCheckInterval' = healthCheckInterval /\ timers' = timers]_vars

\* a is an initial part of b
IsPrefix(a, b) == Len(a) <= Len(b) /\ \A i \in 1..Len(a) : a[i] = b[i]
\* the step is a clearLogs() that discards records
ClearStep == cleared' > cleared

\* C11: the start and every resumption of a disconnect(), whoever called it (the
\* panel, a page close, a failed health check, a failed screenshot probe, a failed
\* connect()), leaves both buffers as they were; a step that is not a clearLogs()
\* only ever appends to them; and clearLogs() leaves activePage and the connection
\* flag as they were
C11_TeardownKeepsLogs ==
  [][/\ DisconnectStep => CurrentLogs' = CurrentLogs
     /\ ~ClearStep => /\ IsPrefix(CurrentLogs.console, CurrentLogs'.console)
                      /\ IsPrefix(CurrentLogs.network, CurrentLogs'.network)
     /\ ClearStep => /\ CurrentLogs' = EmptyLogs
                     /\ activePage' = activePage /\ isConnected' = isConnected]_vars

\* C11 witness: a session was torn down by a page close, nothing is running, and
\* both buffers still hold its records
C11_Witness ==
  /\ activePage = 0 /\ ~isConnected /\ tasks = EmptyBag
  /\ \E c \in Clients : "closed" \in fired[c]
  /\ CurrentLogs.console # <<>> /\ CurrentLogs.network # <<>>

\* C21: at most one liveness timer is armed, an armed timer probes the session that
\* is active, and none is armed while no session is active
C21_OneTimerOfActiveSession ==
  /\ Cardinality(timers) <= 1
  /\ \A c \in timers : c = activePage

\* the attempts of each artifact a call has carried as far as its verification
ImageAttempts(s) == Len(s.imageVerified)
TextAttempts(s) == Len(s.textVerified)

\* C22: when a call for both artifacts raises because an artifact failed its last
\* verification, every artifact it leaves undelivered has had all its attempts
C22_OtherArtifactKeepsItsAttempts ==
  (/\ send.pc = "done" /\ send.result = "raised" /\ ~send.faults
   /\ send.screenshot /\ send.formattedLogs # "") =>
    /\ ~send.imageSuccess => ImageAttempts(send) = maxRetries + 1
    /\ ~send.textSuccess => TextAttempts(send) = maxRetries + 1

\* C23: a call in which the destination-open command never failed executes it at
\* most once, however many iterations the call makes
C23_OpenOncePerCall == ~send.faults => send.opens <= 1

\* the call moves to position pc in this step
Enters(pc) == send'.pc = pc /\ send.pc # pc

\* C24: an artifact is marked succeeded only by the step that verifies it, with the
\* clipboard holding its own content class at that moment; a verification is
\* reached only from the paste of the same attempt, the paste only from the
\* placement, and the placement only after the clear of that attempt has emptied
\* the clipboard
C24_ClearPlaceVerify ==
  [][/\ (send'.imageSuccess /\ ~send.imageSuccess) =>
          send.pc = "i_verify" /\ clipboard = "image"
     /\ (send'.textSuccess /\ ~send.textSuccess) =>
          send.pc = "t_verify" /\ clipboard = "text"
     /\ Enters("i_verify") => send.pc = "i_paste"
     /\ Enters("i_paste") => send.pc = "i_copy" /\ clipboard' = "image"
     /\ Enters("i_copy") => send.pc = "i_stage"
     /\ Enters("i_stage") => send.pc = "i_clear" /\ clipboard' = "empty"
     /\ Enters("t_verify") => send.pc = "t_paste"
     /\ Enters("t_paste") => send.pc = "t_copy" /\ clipboard' = "text"
     /\ Enters("t_copy") => send.pc = "t_clear" /\ clipboard' = "empty"]_vars

\* C24 witness: a call delivered both artifacts, the screenshot at its second attempt
C24_Witness ==
  /\ send.pc = "done" /\ send.result = "returned"
  /\ send.imageSuccess /\ send.textSuccess
  /\ send.imageVerified = <<FALSE, TRUE>>

\* the removal of temp file f has been requested by the call
RemovalRequested(s, f) == \E j \in 1..Len(s.unlinks) : s.unlinks[j] = f

\* C25: when a call has ended, the removal of every temp file it wrote has been
\* requested, whichever way the staging step that wrote it ended
C25_EveryTempFileRemoved ==
  send.pc = "done" => \A i \in 1..Len(send.staged) : RemovalRequested(send, send.staged[i])

\* C30: no write of a temp file fails for want of the staging directory when the
\* directory creation issued with it succeeds
C30_WriteWaitsForDirectory == ~send.enoent

\* C27: a call makes at most 3 iterations, its attempt counters never exceed 2, it
\* returns normally only with every requested artifact delivered, and (when every
\* external step it awaits completes) it ends, by returning or by raising
C27_CallTerminates ==
  /\ [](/\ send.iterations <= maxRetries + 1
        /\ send.imageAttempt <= maxRetries /\ send.textAttempt <= maxRetries
        /\ send.result = "returned" => Undelivered(send) = {})
  /\ (Sending ~> (send.pc = "done" /\ send.result \in {"returned", "raised"}))

\* C27 witness: a call for both artifacts has returned after 3 iterations
C27_Witness ==
  /\ send.pc = "done" /\ send.result = "returned"
  /\ send.screenshot /\ send.formattedLogs # ""
  /\ send.iterations = maxRetries + 1

\* the sessions whose initialization got past its four enable calls
Initialized == {c \in Clients : stateFires[c] > 0}

\* C26: the connection flag turns true only in the step in which the four enable
\* calls of an initialization have succeeded, and that step installs the session
\* and fires the state-change notification once; a failed enable installs nothing
\* and fires nothing; listeners and liveness timers exist only for sessions whose
\* enables succeeded, and no initialization fires the notification twice
C26_InitializationAllOrNothing ==
  [][/\ (isConnected' /\ ~isConnected) =>
          \E r \in InFlight : r.pc = "m_enable" /\ EnableDone(r, TRUE)
     /\ \A r \in InFlight :
          /\ (r.pc = "m_enable" /\ EnableDone(r, TRUE)) =>
               /\ activePage' = r.client /\ isConnected'
               /\ stateFires[r.client] = 0 /\ stateFires'[r.client] = 1
               /\ r.client \notin listeners' \cup timers'
          /\ (r.pc = "m_enable" /\ EnableDone(r, FALSE)) =>
               /\ activePage' # r.client
               /\ isConnected' = isConnected /\ stateFires' = stateFires
     /\ activePage' # 0 => activePage' \in Initialized'
     /\ listeners' \cup timers' \subseteq Initialized'
     /\ \A c \in Clients : stateFires'[c] <= 1]_vars

\* C26 witness: an initialization completed for one session and the enable calls of
\* another failed
C26_Witness ==
  /\ \E c \in Initialized : c \in listeners /\ c \in timers /\ activePage = c /\ isConnected
  /\ \E c \in Clients : clientState[c] # "none" /\ c \notin Initialized
  /\ tasks = EmptyBag

\* a step in which disconnect() call r reaches disconnectEmitter.fire(); r.sess is
\* the session the call found when it was made from connect(), monitorPage or outside
FiresOnDisconnect(r) == r.kind \in {"catch", "connect", "api"} /\ DisconnectCompletes(r)

\* C28: onDisconnect fires only at the end of a disconnect() that found an active
\* session and tore it down
C28_OnDisconnectOnlyAfterTeardown ==
  [][\A r \in InFlight : FiresOnDisconnect(r) => r.sess # 0]_vars

\* C29: every open browser connection the manager has made is the one it holds, and
\* an active session runs on the connection held
C29_OneConnectionHeld ==
  /\ \A b \in Browsers : browserState[b] = "open" => b = browser
  /\ activePage # 0 => (browser # 0 /\ clientConn[activePage] = browser)

\* ------------------------------------------------------------------ spec
Init ==
  /\ browser = 0
  /\ browserState = [b \in Browsers |-> "none"]
  /\ activePage = 0
  /\ isConnected = FALSE
  /\ healthCheckInterval = 0
  /\ timers = {}
  /\ clientState = [c \in Clients |-> "none"]
  /\ clientConn = [c \in Clients |-> 0]
  /\ listeners = {}
  /\ closeListeners = [c \in Clients |-> 0]
  /\ tasks = EmptyBag
  /\ fired = [c \in Clients |-> {}]
  /\ lastSession = 0
  /\ overlap = {}
  /\ stateFires = [c \in Clients |-> 0]
  /\ arrays = [a \in ArrayIds |-> <<>>]
  /\ consoleLogs = 1
  /\ networkLogs = 2
  /\ snapshot = NoSnapshot
  /\ arrived = <<>>
  /\ arrivedNetwork = <<>>
  /\ newLog = <<>>
  /\ cleared = 0
  /\ composerOpened = FALSE
  /\ send = NewSend(FALSE, "")
  /\ clipboard = "other"
  /\ files = [f \in FileIds |-> "absent"]
  /\ unlinking = {}
  /\ tmpDir = FALSE

Next ==
  \/ Connect
  \/ \E r \in InFlight, ok \in BOOLEAN : ConnectDone(r, ok)
  \/ \E r \in InFlight, found \in BOOLEAN : PagesDone(r, found)
  \/ \E r \in InFlight : PickNone(r)
  \/ \E r \in InFlight : PickDone(r)
  \/ \E r \in InFlight : StopMonitoringDone(r)
  \/ \E r \in InFlight : MonitorAfterStop(r)
  \/ \E r \in InFlight, ok \in BOOLEAN : CreateDone(r, ok)
  \/ \E r \in InFlight, ok \in BOOLEAN : EnableDone(r, ok)
  \/ \E r \in InFlight, ok \in BOOLEAN : EvalDone(r, ok)
  \/ \E r \in InFlight, ok \in BOOLEAN : NotifyDone(r, ok)
  \/ \E r \in InFlight : DisconnectAfterStop(r)
  \/ \E r \in InFlight : BrowserDisconnectDone(r)
  \/ \E r \in InFlight : ConnectReturn(r)
  \/ ApiDisconnect
  \/ \E c \in Clients : HealthTick(c)
  \/ \E r \in InFlight, ok \in BOOLEAN : ProbeDone(r, ok)
  \/ \E c \in Clients : PageClosed(c)
  \/ GetPageForScreenshot
  \/ \E r \in InFlight, ok \in BOOLEAN : ShotProbeDone(r, ok)
  \/ \E r \in InFlight : ShotReturn(r)

Spec == Init /\ [][Next]_vars

\* the manager used one call at a time, with the log traffic of its sessions
Solo == tasks = EmptyBag
NextLogs ==
  \/ Solo /\ Connect
  \/ \E r \in InFlight, ok \in BOOLEAN : ConnectDone(r, ok)
  \/ \E r \in InFlight, found \in BOOLEAN : PagesDone(r, found)
  \/ \E r \in InFlight : PickNone(r)
  \/ \E r \in InFlight : PickDone(r)
  \/ \E r \in InFlight : StopMonitoringDone(r)
  \/ \E r \in InFlight : MonitorAfterStop(r)
  \/ \E r \in InFlight, ok \in BOOLEAN : CreateDone(r, ok)
  \/ \E r \in InFlight, ok \in BOOLEAN : EnableDone(r, ok)
  \/ \E r \in InFlight, ok \in BOOLEAN : EvalDone(r, ok)
  \/ \E r \in InFlight, ok \in BOOLEAN : NotifyDone(r, ok)
  \/ \E r \in InFlight : DisconnectAfterStop(r)
  \/ \E r \in InFlight : BrowserDisconnectDone(r)
  \/ \E r \in InFlight : ConnectReturn(r)
  \/ Solo /\ ApiDisconnect
  \/ \E c \in Clients : Solo /\ HealthTick(c)
  \/ \E r \in InFlight, ok \in BOOLEAN : ProbeDone(r, ok)
  \/ \E c \in Clients : Solo /\ PageClosed(c)
  \/ Solo /\ GetPageForScreenshot
  \/ \E r \in InFlight, ok \in BOOLEAN : ShotProbeDone(r, ok)
  \/ \E r \in InFlight : ShotReturn(r)
  \/ \E e \in ApiEvents \cup EntryEvents : ConsoleEvent(e)
  \/ \E e \in ResponseEvents : NetworkEvent(e)
  \/ \E e \in FailedEvents : NetworkEvent(e)
  \/ ClearLogs

SpecLogs == Init /\ [][NextLogs]_vars

\* one connect() or disconnect() at a time, the log traffic, and a caller of getLogs()
NextSnap ==
  \/ Solo /\ Connect
  \/ \E r \in InFlight, ok \in BOOLEAN : ConnectDone(r, ok)
  \/ \E r \in InFlight, found \in BOOLEAN : PagesDone(r, found)
  \/ \E r \in InFlight : PickNone(r)
  \/ \E r \in InFlight : PickDone(r)
  \/ \E r \in InFlight : StopMonitoringDone(r)
  \/ \E r \in InFlight : MonitorAfterStop(r)
  \/ \E r \in InFlight, ok \in BOOLEAN : CreateDone(r, ok)
  \/ \E r \in InFlight, ok \in BOOLEAN : EnableDone(r, ok)
  \/ \E r \in InFlight, ok \in BOOLEAN : EvalDone(r, ok)
  \/ \E r \in InFlight, ok \in BOOLEAN : NotifyDone(r, ok)
  \/ \E r \in InFlight : DisconnectAfterStop(r)
  \/ \E r \in InFlight : BrowserDisconnectDone(r)
  \/ \E r \in InFlight : ConnectReturn(r)
  \/ Solo /\ ApiDisconnect
  \/ \E e \in ApiEvents \cup EntryEvents : ConsoleEvent(e)
  \/ \E e \in ResponseEvents : NetworkEvent(e)
  \/ \E e \in FailedEvents : NetworkEvent(e)
  \/ ClearLogs
  \/ GetLogs

SpecSnap == Init /\ [][NextSnap]_vars

\* deliveries one after another, with the clipboard open to other writers
NextDeliver ==
  \/ \E screenshot \in BOOLEAN, logs \in LogInputs : SendToComposer(screenshot, logs)
  \/ \E ok \in BOOLEAN : OpenDone(ok)
  \/ \E ok \in BOOLEAN : ClearDone(ok)
  \/ \E mkdirOk, writeOk, writeFirst \in BOOLEAN : StageDone(mkdirOk, writeOk, writeFirst)
  \/ \E ok \in BOOLEAN : CopyImageDone(ok)
  \/ \E ok \in BOOLEAN : CopyTextDone(ok)
  \/ \E ok \in BOOLEAN : PasteDone(ok)
  \/ VerifyDone
  \/ \E ok \in BOOLEAN : SuccessNotificationDone(ok)
  \/ \E f \in FileIds, ok \in BOOLEAN : UnlinkDone(f, ok)
  \/ ExternalWrite

SpecDeliver == Init /\ [][NextDeliver]_vars

\* a step of the call in progress: the external step it awaits completes
DeliverStep ==
  \/ \E ok \in BOOLEAN : OpenDone(ok)
  \/ \E ok \in BOOLEAN : ClearDone(ok)
  \/ \E mkdirOk, writeOk, writeFirst \in BOOLEAN : StageDone(mkdirOk, writeOk, writeFirst)
  \/ \E ok \in BOOLEAN : CopyImageDone(ok)
  \/ \E ok \in BOOLEAN : CopyTextDone(ok)
  \/ \E ok \in BOOLEAN : PasteDone(ok)
  \/ VerifyDone
  \/ \E ok \in BOOLEAN : SuccessNotificationDone(ok)

\* the deliveries when every external step a call awaits completes
SpecDeliverFair == SpecDeliver /\ WF_vars(DeliverStep)
====
